---------------------------- MODULE Spec2Model ----------------------------
(* A model of @marionebl/option: the class Option<Payload>, a container   *)
(* with one private slot `payload`, where `undefined` in the slot means   *)
(* None.  Containers live in a heap (object identity = index), every      *)
(* method is an operator from the heap before the call to the heap after, *)
(* the returned (or thrown) value and the log of callback invocations.    *)
EXTENDS Naturals, Sequences, FiniteSets

VARIABLES
  heap,     \* heap[id] = the `payload` field of container id
  last,     \* the last call made: op, receiver, arguments, heap before, outcome, callback log
  tr,       \* the activation of the async method transpose that is in flight, if any
  chain     \* a chain x.andThen(f1)...andThen(fn) under evaluation, if any

vars == <<heap, last, tr, chain>>

-----------------------------------------------------------------------------
(* Bounds *)

MaxObjs == 3      \* containers that are ever allocated
MaxVal == 1       \* number payloads are 1..MaxVal
MaxChain == 3     \* steps of an andThen chain
MaxStart == 2     \* the receiver of a chain holds a number in 1..MaxStart, or nothing
MaxOperand == 16  \* two callbacks are composed on containers holding at most this number

-----------------------------------------------------------------------------
(* JavaScript values.  The first component is what `typeof` answers. *)

Undefined == <<"undefined">>
Num(n) == <<"number", n>>
Bool(b) == <<"boolean", b>>
Str(s) == <<"string", s>>
TypeOf(v) == v[1]
InstanceOf(v, class) == TypeOf(v) = "object" /\ v[2] = class
(* A reference to the container `id`. *)
Ref(id) == <<"object", "Option", id>>
(* [message, code], the pair a callback of okOrElse may return. *)
Pair(message, code) == <<"object", "Array", message, code>>
IsArray(v) == InstanceOf(v, "Array")

Nums == {Num(n) : n \in 1..MaxVal}

(* An Error object is identified by its message. *)
Messages == {Str("m1"), Str("m2")}
UnwrapMessage == Str("unwrap: Expected Some(), was None()")

(* How a call ends. *)
Return(v) == <<"return", v>>
Throw(message) == <<"throw", "Error", message>>
Returned(out) == out[1] = "return"
Threw(out) == out[1] = "throw"

(* What a method does: the heap after it, how it ended, the callbacks it invoked. *)
Done(h, out, calls) == [heap |-> h, out |-> out, calls |-> calls]
ValueOf(res) == res.out[2]


-----------------------------------------------------------------------------
(* The collaborator @marionebl/result, by its contract: Result.Ok(value),  *)
(* Result.Err(message, code?), isOk(), isErr(), unwrap(), unwrapErr().     *)

ResultOk(v) == <<"object", "Result", "Ok", v>>
ResultErr(args) ==
  <<"object", "Result", "Err", args[1], IF Len(args) >= 2 THEN args[2] ELSE Undefined>>
ResultIsOk(r) == r[3] = "Ok"
ResultIsErr(r) == r[3] = "Err"
ResultUnwrap(r) == r[4]
ResultUnwrapErrMessage(r) == r[4]

Codes == {Str("E1")}
Results == {ResultOk(v) : v \in Nums} \cup {ResultErr(<<Str("boom")>>)}

(* The payloads callers store, and the plain values they pass as fallbacks. *)
Payloads == {Undefined} \cup Nums \cup Results
Plain == {Undefined} \cup Nums

-----------------------------------------------------------------------------
(* Callbacks.  A callback is a descriptor that Apply interprets; the ones   *)
(* of the test suite are constants (() => "anotherthing") and functions of *)
(* the payload.                                                            *)

Const(v) == <<"function", "const", v>>
Identity == <<"function", "id">>
Kind(fn) == fn[2]
Apply(fn, args) == IF Kind(fn) = "const" THEN fn[3] ELSE args[1]
Call(fn, args) == [fn |-> fn, args |-> args]

Thunks == {Const(v) : v \in Plain}
Mappers == Thunks \cup {Identity}
Predicates == {Const(Bool(b)) : b \in BOOLEAN}
ErrThunks == {Const(m) : m \in Messages}
                \cup {Const(Pair(m, c)) : m \in Messages, c \in Codes}


-----------------------------------------------------------------------------
(* class Option<Payload>: construction and queries *)

(* private constructor({ payload }): a new container whose slot is payload *)
New(h, payload) == Done(Append(h, payload), Return(Ref(Len(h) + 1)), <<>>)

from_drops_payload(h, payload) == New(h, Undefined)
from(h, payload) == New(h, payload)
Some_stores_null(h, payload) ==
  New(h, IF payload = Undefined THEN <<"object", "null">> ELSE payload)
Some(h, payload) == New(h, payload)
None(h) == New(h, Undefined)

isSome(h, self) == Done(h, Return(Bool(TypeOf(h[self]) # "undefined")), <<>>)
isNone_typeof_object(h, self) == Done(h, Return(Bool(TypeOf(h[self]) = "object")), <<>>)
isNone(h, self) == Done(h, Return(Bool(TypeOf(h[self]) = "undefined")), <<>>)
IsTrue(res) == ValueOf(res) = Bool(TRUE)

(* unwrapping *)

expect_with_fixed_message(h, self, message) ==
  IF TypeOf(h[self]) = "undefined"
    THEN Done(h, Throw(UnwrapMessage), <<>>)
    ELSE Done(h, Return(h[self]), <<>>)
expect(h, self, message) ==
  IF TypeOf(h[self]) = "undefined"
    THEN Done(h, Throw(message), <<>>)
    ELSE Done(h, Return(h[self]), <<>>)

unwrap_returns_on_None(h, self) == Done(h, Return(h[self]), <<>>)
unwrap(h, self) ==
  IF TypeOf(h[self]) = "undefined"
    THEN Done(h, Throw(UnwrapMessage), <<>>)
    ELSE Done(h, Return(h[self]), <<>>)

unwrapOr_prefers_fallback(h, self, fallback) ==
  IF TypeOf(fallback) = "undefined"
    THEN Done(h, Return(h[self]), <<>>)
    ELSE Done(h, Return(fallback), <<>>)
unwrapOr(h, self, fallback) ==
  IF TypeOf(h[self]) = "undefined"
    THEN Done(h, Return(fallback), <<>>)
    ELSE Done(h, Return(h[self]), <<>>)

unwrapOrElse(h, self, fn) ==
  IF TypeOf(h[self]) = "undefined"
    THEN Done(h, Return(Apply(fn, <<>>)), <<Call(fn, <<>>)>>)
    ELSE Done(h, Return(h[self]), <<>>)

(* transformation *)

map_copies_None(h, self, fn) ==
  IF TypeOf(h[self]) = "undefined"
    THEN from(h, Undefined)
    ELSE LET made == from(h, Apply(fn, <<h[self]>>))
         IN  Done(made.heap, made.out, <<Call(fn, <<h[self]>>)>>)
map_without_check(h, self, fn) ==
  LET made == from(h, Apply(fn, <<h[self]>>))
  IN  Done(made.heap, made.out, <<Call(fn, <<h[self]>>)>>)
map(h, self, fn) ==
  IF TypeOf(h[self]) = "undefined"
    THEN Done(h, Return(Ref(self)), <<>>)
    ELSE LET made == from(h, Apply(fn, <<h[self]>>))
         IN  Done(made.heap, made.out, <<Call(fn, <<h[self]>>)>>)

mapOr(h, self, fallback, fn) ==
  IF TypeOf(h[self]) # "undefined"
    THEN Done(h, Return(Apply(fn, <<h[self]>>)), <<Call(fn, <<h[self]>>)>>)
    ELSE Done(h, Return(fallback), <<>>)

mapOrElse_eager_fallback(h, self, fallback, fn) ==
  IF TypeOf(h[self]) # "undefined"
    THEN Done(h, Return(Apply(fn, <<h[self]>>)),
              <<Call(fallback, <<>>), Call(fn, <<h[self]>>)>>)
    ELSE Done(h, Return(Apply(fallback, <<>>)), <<Call(fallback, <<>>)>>)
mapOrElse(h, self, fallback, fn) ==
  IF TypeOf(h[self]) # "undefined"
    THEN Done(h, Return(Apply(fn, <<h[self]>>)), <<Call(fn, <<h[self]>>)>>)
    ELSE Done(h, Return(Apply(fallback, <<>>)), <<Call(fallback, <<>>)>>)

(* Outcome interop *)

okOr_always_Err(h, self, message, c) == Done(h, Return(ResultErr(<<message>>)), <<>>)
okOr(h, self, message, c) ==
  IF TypeOf(h[self]) # "undefined"
    THEN Done(h, Return(ResultOk(h[self])), <<>>)
    ELSE Done(h, Return(ResultErr(<<message>>)), <<>>)

okOrElse_drops_code(h, self, fn) ==
  IF TypeOf(h[self]) # "undefined"
    THEN Done(h, Return(ResultOk(h[self])), <<>>)
    ELSE LET args == Apply(fn, <<>>)
         IN  Done(h,
                  Return(IF IsArray(args) THEN ResultErr(<<args[3]>>)
                                          ELSE ResultErr(<<args>>)),
                  <<Call(fn, <<>>)>>)
okOrElse(h, self, fn) ==
  IF TypeOf(h[self]) # "undefined"
    THEN Done(h, Return(ResultOk(h[self])), <<>>)
    ELSE LET args == Apply(fn, <<>>)
         IN  Done(h,
                  Return(IF IsArray(args) THEN ResultErr(<<args[3], args[4]>>)
                                          ELSE ResultErr(<<args>>)),
                  <<Call(fn, <<>>)>>)


-----------------------------------------------------------------------------
(* Callbacks that return a container.  Those of the test suite hand back a *)
(* container made earlier (() => someB), make a None (nope) or make the    *)
(* Some of the square of their input (square).  Then(f, g) is the callback *)
(* p => f(p).andThen(g); what a callback returns comes with the log of    *)
(* the invocations made while it ran.                                     *)

Returning(id) == <<"function", "ref", id>>
nope == <<"function", "nope">>
square == <<"function", "square">>
Then(f, g) == <<"function", "then", f, g>>

RECURSIVE ApplyOpt(_, _, _)
RECURSIVE andThen(_, _, _)
ApplyOpt(h, fn, args) ==
  CASE Kind(fn) = "ref" -> Done(h, Return(Ref(fn[3])), <<>>)
    [] Kind(fn) = "nope" -> None(h)
    [] Kind(fn) = "square" -> Some(h, Num(args[1][2] * args[1][2]))
    [] Kind(fn) = "then" ->
         LET got == ApplyOpt(h, fn[3], args)
             chained == andThen(got.heap, ValueOf(got)[3], fn[4])
         IN  Done(chained.heap, chained.out,
                  <<Call(fn[3], args)>> \o got.calls \o chained.calls)

(* combinators *)

and_returns_receiver(h, self, b) ==
  IF IsTrue(isNone(h, self)) \/ IsTrue(isNone(h, b))
    THEN None(h)
    ELSE Done(h, Return(Ref(self)), <<>>)
and(h, self, b) ==
  IF IsTrue(isNone(h, self)) \/ IsTrue(isNone(h, b))
    THEN None(h)
    ELSE Done(h, Return(Ref(b)), <<>>)

andThen_rewraps(h, self, fn) ==
  IF IsTrue(isNone(h, self))
    THEN Done(h, Return(Ref(self)), <<>>)
    ELSE LET got == ApplyOpt(h, fn, <<h[self]>>)
             made == from(got.heap, got.heap[ValueOf(got)[3]])
         IN  Done(made.heap, made.out, <<Call(fn, <<h[self]>>)>>)
andThen_skips_None(h, self, fn) ==
  IF IsTrue(isNone(h, self))
    THEN Done(h, Return(Ref(self)), <<>>)
    ELSE LET got == ApplyOpt(h, fn, <<h[self]>>)
         IN  IF IsTrue(isNone(got.heap, ValueOf(got)[3]))
               THEN Done(got.heap, Return(Ref(self)), <<Call(fn, <<h[self]>>)>> \o got.calls)
               ELSE Done(got.heap, got.out, <<Call(fn, <<h[self]>>)>> \o got.calls)
andThen(h, self, fn) ==
  IF IsTrue(isNone(h, self))
    THEN Done(h, Return(Ref(self)), <<>>)
    ELSE LET got == ApplyOpt(h, fn, <<h[self]>>)
         IN  Done(got.heap, got.out, <<Call(fn, <<h[self]>>)>> \o got.calls)

filter_keeps_all(h, self, fn) ==
  IF IsTrue(isNone(h, self))
    THEN Done(h, Return(Ref(self)), <<>>)
    ELSE LET made == Some(h, h[self])
         IN  Done(made.heap, made.out, <<Call(fn, <<h[self]>>)>>)
filter_by_take(h, self, fn) ==
  IF IsTrue(isNone(h, self))
    THEN Done(h, Return(Ref(self)), <<>>)
    ELSE LET made == IF Apply(fn, <<h[self]>>) = Bool(TRUE)
                       THEN Some(h, h[self])
                       ELSE None([h EXCEPT ![self] = Undefined])
         IN  Done(made.heap, made.out, <<Call(fn, <<h[self]>>)>>)
filter(h, self, fn) ==
  IF IsTrue(isNone(h, self))
    THEN Done(h, Return(Ref(self)), <<>>)
    ELSE LET made == IF Apply(fn, <<h[self]>>) = Bool(TRUE)
                       THEN Some(h, h[self])
                       ELSE None(h)
         IN  Done(made.heap, made.out, <<Call(fn, <<h[self]>>)>>)

or_returns_b(h, self, b) == Done(h, Return(Ref(b)), <<>>)
or(h, self, b) ==
  IF IsTrue(isSome(h, self))
    THEN Done(h, Return(Ref(self)), <<>>)
    ELSE Done(h, Return(Ref(b)), <<>>)

orElse(h, self, fn) ==
  IF IsTrue(isSome(h, self))
    THEN Done(h, Return(Ref(self)), <<>>)
    ELSE LET got == ApplyOpt(h, fn, <<>>)
         IN  Done(got.heap, got.out, <<Call(fn, <<>>)>>)

xor_as_or(h, self, b) ==
  IF IsTrue(isSome(h, self))
    THEN Done(h, Return(Ref(self)), <<>>)
    ELSE IF IsTrue(isSome(h, b))
      THEN Done(h, Return(Ref(b)), <<>>)
      ELSE None(h)
xor(h, self, b) ==
  IF IsTrue(isSome(h, self)) /\ IsTrue(isNone(h, b))
    THEN Done(h, Return(Ref(self)), <<>>)
    ELSE IF IsTrue(isNone(h, self)) /\ IsTrue(isSome(h, b))
      THEN Done(h, Return(Ref(b)), <<>>)
      ELSE None(h)

(* in-place mutation *)

getOrInsert_overwrites(h, self, payload) ==
  Done([h EXCEPT ![self] = payload], Return(Ref(self)), <<>>)
getOrInsert(h, self, payload) ==
  IF IsTrue(isSome(h, self))
    THEN Done(h, Return(Ref(self)), <<>>)
    ELSE Done([h EXCEPT ![self] = payload], Return(Ref(self)), <<>>)

getOrInsertWith_eager(h, self, fn) ==
  LET payload == Apply(fn, <<>>)
  IN  IF IsTrue(isSome(h, self))
        THEN Done(h, Return(Ref(self)), <<Call(fn, <<>>)>>)
        ELSE Done([h EXCEPT ![self] = payload], Return(Ref(self)), <<Call(fn, <<>>)>>)
getOrInsertWith(h, self, fn) ==
  IF IsTrue(isSome(h, self))
    THEN Done(h, Return(Ref(self)), <<>>)
    ELSE Done([h EXCEPT ![self] = Apply(fn, <<>>)], Return(Ref(self)), <<Call(fn, <<>>)>>)

take_returns_receiver(h, self) ==
  Done([h EXCEPT ![self] = Undefined], Return(Ref(self)), <<>>)
take_without_reset(h, self) == from(h, h[self])
take(h, self) ==
  LET payload == h[self]
  IN  from([h EXCEPT ![self] = Undefined], payload)

replace_as_documented(h, self, payload) == from(h, payload)
replace(h, self, payload) ==
  LET old == h[self]
  IN  from([h EXCEPT ![self] = payload], old)


-----------------------------------------------------------------------------
(* async transpose(): it runs up to an await, is suspended there, and is   *)
(* resumed later with the awaited value; `this.payload` is read again in   *)
(* every segment.                                                          *)

Pending == <<"pending">>
Resolved(v) == <<"resolved", v>>
Rejected(e) == <<"rejected", e[2], e[3]>>
TypeError(member) == <<"throw", "TypeError", Str(member)>>
ErrorObject(message) == <<"object", "Error", message>>

(* An activation: where it is suspended, its receiver, what the awaited    *)
(* call settled to; and, for reading it afterwards, what the receiver     *)
(* held when transpose was called and whether a method that assigns to    *)
(* `payload` has run on the receiver since.                               *)
Idle ==
  [pc |-> "idle", self |-> 0, held |-> Return(Undefined), at |-> Undefined,
   touched |-> FALSE]
Await(h, t, pc, awaited) ==
  [heap |-> h, out |-> Pending, tr |-> [t EXCEPT !.pc = pc, !.held = awaited]]
Settle(h, out) == [heap |-> h, out |-> out, tr |-> Idle]

(* What the promise of a collaborator's call settles to; `fail` says that *)
(* the collaborator raises.                                               *)
Invoke(r, member, fail) ==
  IF fail THEN Throw(Str("collaborator"))
  ELSE CASE member = "isErr" -> Return(Bool(ResultIsErr(r)))
         [] member = "isOk" -> Return(Bool(ResultIsOk(r)))
         [] member = "unwrap" ->
              IF ResultIsOk(r) THEN Return(ResultUnwrap(r))
                               ELSE Throw(ResultUnwrapErrMessage(r))
         [] member = "unwrapErr" ->
              IF ResultIsErr(r) THEN Return(ErrorObject(ResultUnwrapErrMessage(r)))
                                ELSE Throw(Str("unwrapErr"))

(* await this.payload.member(): a payload that is no Result has no such *)
(* member, and the call itself throws.                                  *)
AwaitMember(h, t, member, fail) ==
  IF InstanceOf(h[t.self], "Result")
    THEN Await(h, t, member, Invoke(h[t.self], member, fail))
    ELSE Settle(h, Rejected(TypeError(member)))

OkNone(h) ==
  LET none == None(h)
  IN  Settle(none.heap, Resolved(ResultOk(ValueOf(none))))

(* from the call to the first await, or to the return *)
transpose_keeps_payload(h, self, fail) ==
  IF InstanceOf(h[self], "Result")
    THEN AwaitMember(h, [Idle EXCEPT !.self = self, !.at = h[self]], "isErr", fail)
    ELSE LET made == from(h, h[self])
         IN  Settle(made.heap, Resolved(ResultOk(ValueOf(made))))
transpose(h, self, fail) ==
  IF InstanceOf(h[self], "Result")
    THEN AwaitMember(h, [Idle EXCEPT !.self = self, !.at = h[self]], "isErr", fail)
    ELSE OkNone(h)

(* from one await to the next, or to the return *)
transposeResume_wraps_outcome(h, t, fail) ==
  IF Threw(t.held)
    THEN Settle(h, Rejected(t.held))
    ELSE CASE t.pc = "isErr" ->
                IF t.held = Return(Bool(TRUE))
                  THEN AwaitMember(h, t, "unwrapErr", fail)
                  ELSE AwaitMember(h, t, "isOk", fail)
           [] t.pc = "unwrapErr" ->
                Settle(h, Resolved(ResultErr(<<t.held[2][3]>>)))
           [] t.pc = "isOk" ->
                IF t.held = Return(Bool(TRUE))
                  THEN AwaitMember(h, t, "unwrap", fail)
                  ELSE OkNone(h)
           [] t.pc = "unwrap" ->
                LET made == from(h, h[t.self])
                IN  Settle(made.heap, Resolved(ResultOk(ValueOf(made))))
transposeResume(h, t, fail) ==
  IF Threw(t.held)
    THEN Settle(h, Rejected(t.held))
    ELSE CASE t.pc = "isErr" ->
                IF t.held = Return(Bool(TRUE))
                  THEN AwaitMember(h, t, "unwrapErr", fail)
                  ELSE AwaitMember(h, t, "isOk", fail)
           [] t.pc = "unwrapErr" ->
                Settle(h, Resolved(ResultErr(<<t.held[2][3]>>)))
           [] t.pc = "isOk" ->
                IF t.held = Return(Bool(TRUE))
                  THEN AwaitMember(h, t, "unwrap", fail)
                  ELSE OkNone(h)
           [] t.pc = "unwrap" ->
                LET made == from(h, t.held[2])
                IN  Settle(made.heap, Resolved(ResultOk(ValueOf(made))))


-----------------------------------------------------------------------------
(* The program: any sequence of calls on the containers made so far. *)

Objs == 1..Len(heap)
OptionThunks == {Returning(id) : id \in Objs} \cup {nope}

NoChain == [steps |-> <<>>, pos |-> 0, x |-> 0, cur |-> 0, log |-> <<>>]

Init ==
  /\ heap = <<>>
  /\ last = [op |-> "init", self |-> 0, args |-> <<>>, pre |-> <<>>,
             out |-> Return(Undefined), calls |-> <<>>, act |-> Idle]
  /\ tr = Idle
  /\ chain = NoChain

(* A call: the heap it leaves, and the record of it, which keeps the heap  *)
(* and the activation of transpose as they were before.  Containers are   *)
(* never freed, so a call that would allocate beyond MaxObjs is not       *)
(* followed.                                                              *)
Record(op, self, args, h, out, calls) ==
  /\ Len(h) <= MaxObjs
  /\ heap' = h
  /\ last' = [op |-> op, self |-> self, args |-> args, pre |-> heap,
              out |-> out, calls |-> calls, act |-> tr]

(* A call of one of the four methods that assign to `payload`; it may run *)
(* while transpose is suspended.                                          *)
Mutate(op, self, args, res) ==
  /\ tr.pc # "idle" => Len(res.heap) < MaxObjs
  /\ Record(op, self, args, res.heap, res.out, res.calls)
  /\ tr' = IF tr.pc # "idle" /\ tr.self = self THEN [tr EXCEPT !.touched = TRUE] ELSE tr
  /\ UNCHANGED chain

(* A call of any other synchronous method or constructor.  These neither  *)
(* assign to a slot nor read what a suspended transpose reads, so they are *)
(* followed between activations of transpose only.                        *)
Do(op, self, args, res) ==
  /\ tr.pc = "idle"
  /\ Record(op, self, args, res.heap, res.out, res.calls)
  /\ UNCHANGED <<tr, chain>>

(* A segment of transpose.  Of the MaxObjs containers, one is kept for the *)
(* container that a suspended transpose makes when it settles.            *)
DoAsync(self, res) ==
  /\ res.tr.pc # "idle" => Len(res.heap) < MaxObjs
  /\ Record("transpose", self, <<>>, res.heap, res.out, <<>>)
  /\ tr' = res.tr
  /\ UNCHANGED chain

call_from == \E p \in Payloads : Do("from", 0, <<p>>, from(heap, p))
call_Some == \E p \in Payloads : Do("Some", 0, <<p>>, Some(heap, p))
call_None == Do("None", 0, <<>>, None(heap))
call_isSome == \E self \in Objs : Do("isSome", self, <<>>, isSome(heap, self))
call_isNone == \E self \in Objs : Do("isNone", self, <<>>, isNone(heap, self))
call_expect ==
  \E self \in Objs, m \in Messages : Do("expect", self, <<m>>, expect(heap, self, m))
call_unwrap == \E self \in Objs : Do("unwrap", self, <<>>, unwrap(heap, self))
call_unwrapOr ==
  \E self \in Objs, v \in Plain : Do("unwrapOr", self, <<v>>, unwrapOr(heap, self, v))
call_unwrapOrElse ==
  \E self \in Objs, fn \in Thunks :
    Do("unwrapOrElse", self, <<fn>>, unwrapOrElse(heap, self, fn))
call_map ==
  \E self \in Objs, fn \in Mappers : Do("map", self, <<fn>>, map(heap, self, fn))
call_mapOr ==
  \E self \in Objs, v \in Plain, fn \in Mappers :
    Do("mapOr", self, <<v, fn>>, mapOr(heap, self, v, fn))
call_mapOrElse ==
  \E self \in Objs, fb \in Thunks, fn \in Mappers :
    Do("mapOrElse", self, <<fb, fn>>, mapOrElse(heap, self, fb, fn))
call_okOr ==
  \E self \in Objs, m \in Messages, c \in Codes \cup {Undefined} :
    Do("okOr", self, <<m, c>>, okOr(heap, self, m, c))
call_okOrElse ==
  \E self \in Objs, fn \in ErrThunks : Do("okOrElse", self, <<fn>>, okOrElse(heap, self, fn))
call_and == \E self \in Objs, b \in Objs : Do("and", self, <<Ref(b)>>, and(heap, self, b))
call_andThen ==
  \E self \in Objs, fn \in OptionThunks :
    Do("andThen", self, <<fn>>, andThen(heap, self, fn))
call_filter ==
  \E self \in Objs, fn \in Predicates : Do("filter", self, <<fn>>, filter(heap, self, fn))
call_or == \E self \in Objs, b \in Objs : Do("or", self, <<Ref(b)>>, or(heap, self, b))
call_orElse ==
  \E self \in Objs, fn \in OptionThunks : Do("orElse", self, <<fn>>, orElse(heap, self, fn))
call_xor == \E self \in Objs, b \in Objs : Do("xor", self, <<Ref(b)>>, xor(heap, self, b))
call_getOrInsert ==
  \E self \in Objs, p \in Payloads :
    Mutate("getOrInsert", self, <<p>>, getOrInsert(heap, self, p))
call_getOrInsertWith ==
  \E self \in Objs, fn \in Thunks :
    Mutate("getOrInsertWith", self, <<fn>>, getOrInsertWith(heap, self, fn))
call_take == \E self \in Objs : Mutate("take", self, <<>>, take(heap, self))
call_replace ==
  \E self \in Objs, p \in Payloads : Mutate("replace", self, <<p>>, replace(heap, self, p))

(* One activation of transpose is followed at a time. *)
call_transpose ==
  /\ tr.pc = "idle"
  /\ \E self \in Objs, fail \in BOOLEAN : DoAsync(self, transpose(heap, self, fail))
resume_transpose ==
  /\ tr.pc # "idle"
  /\ \E fail \in BOOLEAN : DoAsync(tr.self, transposeResume(heap, tr, fail))

Next ==
  \/ call_from \/ call_Some \/ call_None
  \/ call_isSome \/ call_isNone
  \/ call_expect \/ call_unwrap \/ call_unwrapOr \/ call_unwrapOrElse
  \/ call_map \/ call_mapOr \/ call_mapOrElse
  \/ call_okOr \/ call_okOrElse
  \/ call_and \/ call_andThen \/ call_filter
  \/ call_or \/ call_orElse \/ call_xor
  \/ call_getOrInsert \/ call_getOrInsertWith \/ call_take \/ call_replace
  \/ call_transpose \/ resume_transpose

Spec == Init /\ [][Next]_vars

(* An awaited call of the collaborator that settles makes the event loop  *)
(* resume the activation that awaits it (a resumption always changes tr). *)
FairSpec == Init /\ [][Next]_vars /\ WF_tr(resume_transpose)

-----------------------------------------------------------------------------
(* A chain x.andThen(f1).andThen(f2)...andThen(fn): the receiver and the   *)
(* steps are drawn at the start, and each step of the program evaluates   *)
(* the next .andThen on what the previous one returned.                   *)

StepFns == {square, nope, Returning(1)}
Chains == UNION {[1..n -> StepFns] : n \in 1..MaxChain}
ChainStarts == {Undefined} \cup {Num(n) : n \in 1..MaxStart}

ChainInit ==
  \E p \in ChainStarts, steps \in Chains :
    LET x == from(<<>>, p)
    IN  /\ heap = x.heap
        /\ last = [op |-> "from", self |-> 0, args |-> <<p>>, pre |-> <<>>,
                   out |-> x.out, calls |-> <<>>, act |-> Idle]
        /\ tr = Idle
        /\ chain = [steps |-> steps, pos |-> 1, x |-> ValueOf(x)[3],
                    cur |-> ValueOf(x)[3], log |-> <<>>]

(* What a step was called with and what it returned, per invocation. *)
Invocations(h, pos, calls) ==
  [i \in 1..Len(calls) |->
     [step |-> pos, args |-> calls[i].args,
      ret |-> ValueOf(ApplyOpt(h, calls[i].fn, calls[i].args))]]

chain_andThen ==
  /\ chain.pos \in 1..Len(chain.steps)
  /\ LET fn == chain.steps[chain.pos]
         res == andThen(heap, chain.cur, fn)
     IN  /\ heap' = res.heap
         /\ last' = [op |-> "andThen", self |-> chain.cur, args |-> <<fn>>,
                     pre |-> heap, out |-> res.out, calls |-> res.calls, act |-> tr]
         /\ chain' = [chain EXCEPT !.pos = @ + 1,
                                   !.cur = ValueOf(res)[3],
                                   !.log = @ \o Invocations(heap, chain.pos, res.calls)]
  /\ UNCHANGED tr

ChainNext == chain_andThen

ChainSpec == ChainInit /\ [][ChainNext]_vars


-----------------------------------------------------------------------------
(* Reading the record of the last call. *)

Receiver == last.self
Before == last.pre[last.self]
Arg(i) == last.args[i]
ReturnedRef == Returned(last.out) /\ InstanceOf(last.out[2], "Option")
OutId == last.out[2][3]
Mutators == {"take", "replace", "getOrInsert", "getOrInsertWith"}

-----------------------------------------------------------------------------
(* C1: for every payload p other than undefined, from(p).isSome() is true *)
(* and from(p).unwrap() returns p; from(undefined), which is also from()  *)
(* without an argument, gives a container whose isNone() is true.         *)
C1_FromRoundTrip ==
  last.op = "from" =>
    /\ ReturnedRef
    /\ IF Arg(1) # Undefined
         THEN /\ isSome(heap, OutId).out = Return(Bool(TRUE))
              /\ unwrap(heap, OutId).out = Return(Arg(1))
         ELSE isNone(heap, OutId).out = Return(Bool(TRUE))

C1_Witness ==
  /\ last.op = "from"
  /\ Arg(1) \in Results
  /\ unwrap(heap, OutId).out = Return(Arg(1))

(* C2: in every reachable state, and for every container, isNone() is the *)
(* negation of isSome().                                                  *)
C2_IsNoneIsNotIsSome ==
  \A id \in Objs :
    /\ ValueOf(isSome(heap, id)) \in {Bool(TRUE), Bool(FALSE)}
    /\ ValueOf(isNone(heap, id)) = Bool(~IsTrue(isSome(heap, id)))

C2_Witness ==
  /\ last.op = "replace"
  /\ Before = Undefined
  /\ IsTrue(isSome(heap, Receiver))
  /\ \E id \in Objs : IsTrue(isNone(heap, id))

(* C3: on a None receiver expect(message) throws an error with exactly    *)
(* that message and unwrap() throws one with the fixed message; on        *)
(* Some(p) both return p; in all four cases the slot is left as it was.   *)
C3_ExpectUnwrap ==
  /\ last.op = "expect" =>
        /\ heap = last.pre
        /\ last.out = IF Before = Undefined THEN Throw(Arg(1)) ELSE Return(Before)
  /\ last.op = "unwrap" =>
        /\ heap = last.pre
        /\ last.out = IF Before = Undefined THEN Throw(UnwrapMessage) ELSE Return(Before)

C3_Witness ==
  /\ last.op = "unwrap"
  /\ Before = Undefined
  /\ last.out = Throw(UnwrapMessage)
  /\ heap[Receiver] = Undefined


(* C4: no operation other than expect and unwrap raises: whatever the     *)
(* receiver holds and whatever the arguments, every other call completes  *)
(* without an error of its own (a rejection that carries an error raised  *)
(* by the collaborator is not an error of transpose).                     *)
C4_OnlyExpectAndUnwrapRaise ==
  last.op \notin {"expect", "unwrap"} =>
    \/ last.out[1] \in {"return", "pending", "resolved"}
    \/ last.out[1] = "rejected" /\ last.out[2] = "Error"

(* C5: take() returns a container holding what the receiver held before   *)
(* the call (None if it held nothing) and leaves the receiver None; a     *)
(* second take() on the same receiver returns None and leaves it None.    *)
C5_Take ==
  last.op = "take" =>
    /\ ReturnedRef
    /\ heap[OutId] = Before
    /\ isNone(heap, Receiver).out = Return(Bool(TRUE))
    /\ LET again == take(heap, Receiver)
       IN  /\ isNone(again.heap, ValueOf(again)[3]).out = Return(Bool(TRUE))
           /\ isNone(again.heap, Receiver).out = Return(Bool(TRUE))

C5_Witness ==
  /\ last.op = "take"
  /\ Before # Undefined
  /\ heap[OutId] = Before
  /\ heap[Receiver] = Undefined

(* C6, as stated: replace(payload) returns a container holding the        *)
(* receiver's previous payload (None if there was none), and the receiver *)
(* is Some(payload) after the call, for every payload passed.             *)
C6_ReplaceAlwaysLeavesSome ==
  last.op = "replace" =>
    /\ ReturnedRef
    /\ heap[OutId] = Before
    /\ isSome(heap, Receiver).out = Return(Bool(TRUE))
    /\ unwrap(heap, Receiver).out = Return(Arg(1))

(* C6, amended: replace(payload) returns a container holding the          *)
(* receiver's previous payload (None if there was none); after the call   *)
(* the receiver is Some(payload) for every payload other than undefined,  *)
(* and None after replace(undefined).                                     *)
C6_Replace ==
  last.op = "replace" =>
    /\ ReturnedRef
    /\ heap[OutId] = Before
    /\ IF Arg(1) # Undefined
         THEN /\ isSome(heap, Receiver).out = Return(Bool(TRUE))
              /\ unwrap(heap, Receiver).out = Return(Arg(1))
         ELSE isNone(heap, Receiver).out = Return(Bool(TRUE))

C6_Witness ==
  /\ last.op = "replace"
  /\ Before # Undefined
  /\ Arg(1) \notin {Undefined, Before}
  /\ heap[OutId] = Before
  /\ heap[Receiver] = Arg(1)

(* What getOrInsert(payload), resp. getOrInsertWith(fn), offers to insert. *)
Offered == IF last.op = "getOrInsert" THEN Arg(1) ELSE Apply(Arg(1), <<>>)
Insertions == {"getOrInsert", "getOrInsertWith"}

(* C7, as stated: on a None receiver getOrInsert(payload) and             *)
(* getOrInsertWith(fn) set the slot to payload (resp. fn()) and return    *)
(* the receiver, which is now Some; on Some(p) they return the receiver   *)
(* with its payload still p.                                              *)
C7_InsertionLeavesSome ==
  last.op \in Insertions =>
    /\ last.out = Return(Ref(Receiver))
    /\ heap[Receiver] = IF Before = Undefined THEN Offered ELSE Before
    /\ isSome(heap, Receiver).out = Return(Bool(TRUE))

(* C7, amended: on a None receiver both set the slot to payload (resp.    *)
(* fn()) and return the receiver, which is now Some unless the value      *)
(* inserted is undefined; on Some(p) they return the receiver with its    *)
(* payload still p and change nothing, so once the receiver is Some no     *)
(* further insertion takes effect.                                        *)
C7_GetOrInsert ==
  last.op \in Insertions =>
    /\ last.out = Return(Ref(Receiver))
    /\ IF Before = Undefined
         THEN /\ heap[Receiver] = Offered
              /\ Offered # Undefined => isSome(heap, Receiver).out = Return(Bool(TRUE))
         ELSE /\ heap = last.pre
              /\ last.calls = <<>>
    /\ IsTrue(isSome(heap, Receiver)) =>
         /\ \A p \in Payloads : getOrInsert(heap, Receiver, p).heap = heap
         /\ \A fn \in Thunks : getOrInsertWith(heap, Receiver, fn).heap = heap

C7_Witness ==
  /\ last.op = "getOrInsert"
  /\ Before # Undefined
  /\ Arg(1) \notin {Undefined, Before}
  /\ heap[Receiver] = Before

(* C8: take, replace, getOrInsert and getOrInsertWith are the only calls  *)
(* that change a payload slot, and they change the receiver's slot only:  *)
(* after any call, a slot that differs from what it was before the call   *)
(* is the slot of the receiver of one of these four.                      *)
C8_Frame ==
  /\ Len(heap) >= Len(last.pre)
  /\ \A id \in DOMAIN last.pre :
       heap[id] # last.pre[id] => last.op \in Mutators /\ id = Receiver

C8_Witness ==
  /\ last.op = "filter"
  /\ Before # Undefined
  /\ last.calls = <<Call(Const(Bool(FALSE)), <<Before>>)>>
  /\ heap[Receiver] = Before
  /\ heap[OutId] = Undefined

(* C9: map(fn) on None returns None without invoking fn; on Some(p) it    *)
(* invokes fn exactly once, with p, and returns from(fn(p)): Some(fn(p))  *)
(* when fn(p) is not undefined, None when it is.                          *)
C9_Map ==
  last.op = "map" =>
    /\ ReturnedRef
    /\ IF Before = Undefined
         THEN /\ last.calls = <<>>
              /\ isNone(heap, OutId).out = Return(Bool(TRUE))
         ELSE /\ last.calls = <<Call(Arg(1), <<Before>>)>>
              /\ IF Apply(Arg(1), <<Before>>) # Undefined
                   THEN /\ isSome(heap, OutId).out = Return(Bool(TRUE))
                        /\ unwrap(heap, OutId).out = Return(Apply(Arg(1), <<Before>>))
                   ELSE isNone(heap, OutId).out = Return(Bool(TRUE))

C9_Witness ==
  /\ last.op = "map"
  /\ Before # Undefined
  /\ Apply(Arg(1), <<Before>>) \notin {Undefined, Before}
  /\ heap[OutId] = Apply(Arg(1), <<Before>>)


-----------------------------------------------------------------------------
(* Reading the chain. *)

Evaluated == 1..(chain.pos - 1)
Invoked(k) == \E i \in 1..Len(chain.log) : chain.log[i].step = k
ReturnOf(k) == (CHOOSE e \in {chain.log[i] : i \in 1..Len(chain.log)} : e.step = k).ret
(* The receiver was None, or a step before step k returned None. *)
NoneBefore(k) ==
  \/ heap[chain.x] = Undefined
  \/ \E j \in 1..(k - 1) : Invoked(j) /\ heap[ReturnOf(j)[3]] = Undefined

(* C10: in a chain x.andThen(f1)...andThen(fn) the steps are invoked in    *)
(* order, each at most once; once the receiver is None or a step has      *)
(* returned None no later step is invoked and the result is None; when    *)
(* every step returns Some the result is the very container the last      *)
(* step returned; Some(2) through square twice is Some(16).               *)
C10_AndThenChain ==
  /\ \A i, j \in 1..Len(chain.log) :
       i < j => chain.log[i].step < chain.log[j].step
  /\ \A k \in Evaluated : Invoked(k) <=> ~NoneBefore(k)
  /\ \A k \in Evaluated : Invoked(k) => heap[chain.x] # Undefined
  /\ NoneBefore(chain.pos) => isNone(heap, chain.cur).out = Return(Bool(TRUE))
  /\ (chain.pos > 1 /\ ~NoneBefore(chain.pos)) =>
       /\ Ref(chain.cur) = ReturnOf(chain.pos - 1)
       /\ isSome(heap, chain.cur).out = Return(Bool(TRUE))
  /\ (/\ chain.steps = <<square, square>>
      /\ chain.pos = 3
      /\ heap[chain.x] = Num(2)) => unwrap(heap, chain.cur).out = Return(Num(16))

C10_Witness ==
  /\ chain.steps = <<square, nope, square>>
  /\ chain.pos = 4
  /\ heap[chain.x] = Num(2)
  /\ Len(chain.log) = 2
  /\ chain.log[1].args = <<Num(2)>>
  /\ chain.log[2].args = <<Num(4)>>
  /\ heap[chain.cur] = Undefined

-----------------------------------------------------------------------------
(* Reading the operand of a.and(b), a.or(b), a.xor(b). *)

Other == Arg(1)[3]
OtherBefore == last.pre[Other]

Held(res) == res.heap[ValueOf(res)[3]]

(* C12: a.or(b) returns the receiver a when a is Some, whatever b is, and *)
(* b when a is None; a.orElse(fn) returns the receiver when a is Some and *)
(* what fn() returned when a is None; for every container a and callback  *)
(* fn, a.orElse(fn) and a.or(fn()) return the same container.             *)
C12_OrOrElse ==
  /\ last.op = "or" =>
       /\ last.out = Return(IF Before # Undefined THEN Ref(Receiver) ELSE Arg(1))
       /\ heap = last.pre
  /\ last.op = "orElse" =>
       IF Before # Undefined
         THEN last.out = Return(Ref(Receiver))
         ELSE /\ last.out = ApplyOpt(last.pre, Arg(1), <<>>).out
              /\ heap = ApplyOpt(last.pre, Arg(1), <<>>).heap
  /\ \A a \in Objs, fn \in OptionThunks :
       LET lazy == orElse(heap, a, fn)
           b == ApplyOpt(heap, fn, <<>>)
           eager == or(b.heap, a, ValueOf(b)[3])
       IN  /\ lazy.out = eager.out
           /\ Held(lazy) = Held(eager)

C12_Witness ==
  /\ last.op = "or"
  /\ Before # Undefined
  /\ Other # Receiver
  /\ OtherBefore \notin {Undefined, Before}
  /\ last.out = Return(Ref(Receiver))
  /\ \E fn \in OptionThunks :
       /\ Kind(fn) = "ref"
       /\ heap[fn[3]] # Undefined
       /\ \E a \in Objs : heap[a] = Undefined /\ orElse(heap, a, fn).out = Return(Ref(fn[3]))

(* C13: a.xor(b) is Some exactly when one of a and b is Some and the other *)
(* is None, and the result is then the one that is Some; it is None when  *)
(* both are Some and when both are None.  For all containers a and b,     *)
(* a.xor(b) and b.xor(a) hold the same payload.                           *)
C13_Xor ==
  /\ last.op = "xor" =>
       /\ ReturnedRef
       /\ IsTrue(isSome(heap, OutId)) <=> ((Before # Undefined) # (OtherBefore # Undefined))
       /\ IsTrue(isNone(heap, OutId)) <=> ((Before # Undefined) = (OtherBefore # Undefined))
       /\ (Before # Undefined /\ OtherBefore = Undefined) => last.out = Return(Ref(Receiver))
       /\ (Before = Undefined /\ OtherBefore # Undefined) => last.out = Return(Arg(1))
  /\ \A a, b \in Objs : Held(xor(heap, a, b)) = Held(xor(heap, b, a))

C13_Witness ==
  /\ last.op = "xor"
  /\ Before # Undefined
  /\ OtherBefore \notin {Undefined, Before}
  /\ Other # Receiver
  /\ OutId \notin {Receiver, Other}
  /\ heap[OutId] = Undefined
  /\ xor(heap, Receiver, OutId).out = Return(Ref(Receiver))
  /\ xor(heap, OutId, Receiver).out = Return(Ref(Receiver))

(* C14: filter(predicate) on None returns None without invoking the       *)
(* predicate; on Some(p) it invokes the predicate exactly once, with p,   *)
(* and returns Some(p) when the predicate answers true and None when it   *)
(* answers false; the receiver is still Some(p) afterwards either way.    *)
C14_Filter ==
  last.op = "filter" =>
    /\ ReturnedRef
    /\ IF Before = Undefined
         THEN /\ last.calls = <<>>
              /\ isNone(heap, OutId).out = Return(Bool(TRUE))
         ELSE /\ last.calls = <<Call(Arg(1), <<Before>>)>>
              /\ IF Apply(Arg(1), <<Before>>) = Bool(TRUE)
                   THEN /\ isSome(heap, OutId).out = Return(Bool(TRUE))
                        /\ unwrap(heap, OutId).out = Return(Before)
                   ELSE isNone(heap, OutId).out = Return(Bool(TRUE))
              /\ isSome(heap, Receiver).out = Return(Bool(TRUE))
              /\ unwrap(heap, Receiver).out = Return(Before)

C14_Witness ==
  /\ last.op = "filter"
  /\ Before \in Nums
  /\ Arg(1) = Const(Bool(TRUE))
  /\ last.calls = <<Call(Arg(1), <<Before>>)>>
  /\ OutId # Receiver
  /\ heap[OutId] = Before
  /\ heap[Receiver] = Before

(* C15: on Some(p), unwrapOr(fallback) and unwrapOrElse(fn) both return p; *)
(* on None, unwrapOr(fallback) returns fallback and unwrapOrElse(fn)      *)
(* returns what fn() returned.                                            *)
C15_UnwrapOr ==
  /\ last.op = "unwrapOr" =>
       last.out = Return(IF Before # Undefined THEN Before ELSE Arg(1))
  /\ last.op = "unwrapOrElse" =>
       last.out = Return(IF Before # Undefined THEN Before ELSE Apply(Arg(1), <<>>))

C15_Witness ==
  /\ last.op = "unwrapOr"
  /\ Before # Undefined
  /\ Arg(1) \notin {Undefined, Before}
  /\ last.out = Return(Before)
  /\ \E id \in Objs, fn \in Thunks :
       /\ heap[id] = Undefined
       /\ Apply(fn, <<>>) # Undefined
       /\ unwrapOrElse(heap, id, fn).out = Return(Apply(fn, <<>>))

Lazy == {"unwrapOrElse", "orElse", "okOrElse", "getOrInsertWith"}

(* C17: the callback passed to unwrapOrElse, orElse, okOrElse or          *)
(* getOrInsertWith is not invoked when the receiver is Some when the call *)
(* is made, and is invoked exactly once, without arguments, when the      *)
(* receiver is None.                                                      *)
C17_Laziness ==
  last.op \in Lazy =>
    last.calls = IF Before # Undefined THEN <<>> ELSE <<Call(Arg(1), <<>>)>>

C17_Witness ==
  /\ last.op = "getOrInsertWith"
  /\ Before # Undefined
  /\ Apply(Arg(1), <<>>) \notin {Undefined, Before}
  /\ last.calls = <<>>
  /\ heap[Receiver] = Before

-----------------------------------------------------------------------------
(* Reading an outcome: Ok(v), Err(message) and Err(message, code) as the  *)
(* collaborator makes them.                                               *)

Ok(v) == Return(ResultOk(v))
Err(message) == Return(ResultErr(<<message>>))
ErrWithCode(message, code) == Return(ResultErr(<<message, code>>))

(* C18: Some(p).okOr(message) is Ok(p), and None().okOr(message) is the   *)
(* failure outcome made from the message, Err(message); okOr returns in   *)
(* both cases.                                                            *)
C18_OkOr ==
  last.op = "okOr" =>
    /\ Returned(last.out)
    /\ Before # Undefined => last.out = Ok(Before)
    /\ (Before = Undefined /\ Arg(2) = Undefined) => last.out = Err(Arg(1))

C18_Witness ==
  /\ last.op = "okOr"
  /\ Before = Undefined
  /\ Arg(2) = Undefined
  /\ last.out = Err(Arg(1))
  /\ ResultIsErr(last.out[2])
  /\ \E id \in Objs :
       /\ heap[id] \in Nums
       /\ okOr(heap, id, Arg(1), Undefined).out = Ok(heap[id])

(* C19: okOr(message, code) on None returns the failure outcome made from *)
(* both, Err(message, code): the outcome carries the code the caller      *)
(* passed.                                                                *)
C19_OkOrCarriesCode ==
  (last.op = "okOr" /\ Before = Undefined /\ Arg(2) # Undefined) =>
    /\ last.out = ErrWithCode(Arg(1), Arg(2))
    /\ last.out[2][5] = Arg(2)

(* C20: Some(p).okOrElse(fn) is Ok(p); None().okOrElse(fn) is Err(m) when *)
(* fn returns the message m alone, and Err(m, c), made from both, when fn *)
(* returns the pair [m, c].                                               *)
C20_OkOrElse ==
  last.op = "okOrElse" =>
    /\ Before # Undefined => last.out = Ok(Before)
    /\ Before = Undefined =>
         \A m \in Messages :
           /\ Arg(1) = Const(m) => last.out = Err(m)
           /\ \A c \in Codes :
                Arg(1) = Const(Pair(m, c)) =>
                  /\ last.out = ErrWithCode(m, c)
                  /\ last.out # Err(m)

C20_Witness ==
  /\ last.op = "okOrElse"
  /\ Before = Undefined
  /\ Arg(1) = Const(Pair(Str("m1"), Str("E1")))
  /\ last.out = Return(<<"object", "Result", "Err", Str("m1"), Str("E1")>>)

-----------------------------------------------------------------------------
(* Reading the record of a segment of transpose. *)

(* The segment settled the promise. *)
Settled == last.op = "transpose" /\ last.out[1] \in {"resolved", "rejected"}
(* The segment is the one that starts at the call. *)
AtTheCall == last.op = "transpose" /\ last.act.pc = "idle"
(* The activation the segment ran in. *)
Activation ==
  IF AtTheCall THEN [Idle EXCEPT !.self = Receiver, !.at = Before] ELSE last.act
(* The receiver's payload when transpose was called. *)
AtCall == Activation.at
(* The promise resolved to Ok(o), o a container holding payload. *)
ResolvedOkOf(payload) ==
  /\ last.out[1] = "resolved"
  /\ InstanceOf(last.out[2], "Result")
  /\ ResultIsOk(last.out[2])
  /\ InstanceOf(ResultUnwrap(last.out[2]), "Option")
  /\ heap[ResultUnwrap(last.out[2])[3]] = payload
(* The promise resolved to the failure outcome with this message. *)
ResolvedErr(message) ==
  /\ last.out[1] = "resolved"
  /\ InstanceOf(last.out[2], "Result")
  /\ ResultIsErr(last.out[2])
  /\ ResultUnwrapErrMessage(last.out[2]) = message
(* What transpose is documented to settle to for a receiver holding payload. *)
Documented(payload) ==
  IF InstanceOf(payload, "Result")
    THEN IF ResultIsOk(payload) THEN ResolvedOkOf(ResultUnwrap(payload))
                                ELSE ResolvedErr(ResultUnwrapErrMessage(payload))
    ELSE ResolvedOkOf(Undefined)

(* C21: when no method that assigns to the slot runs on the receiver      *)
(* between the call of transpose and its settling, and the collaborator   *)
(* does not raise, transpose resolves to Ok(None) on a None receiver, to  *)
(* Ok(Some(v)) on Some(Ok(v)), and to the failure outcome with the inner  *)
(* failure's message on Some(Err(e)).                                     *)
C21_Transpose ==
  (/\ Settled
   /\ ~Activation.touched
   /\ ~Threw(Activation.held)
   /\ AtCall = Undefined \/ InstanceOf(AtCall, "Result")) => Documented(AtCall)

C21_Witness ==
  /\ Settled
  /\ ~Activation.touched
  /\ Activation.pc = "unwrap"
  /\ AtCall = ResultOk(Num(1))
  /\ last.out[1] = "resolved"
  /\ heap[last.out[2][4][3]] = Num(1)
  /\ heap[Receiver] = AtCall

(* C22: transpose() on Some(x), x not an outcome, resolves to Ok(None):   *)
(* x is not in the result, nothing is rejected, and the receiver keeps x. *)
C22_TransposeOfNonOutcome ==
  (/\ AtTheCall
   /\ Before # Undefined
   /\ ~InstanceOf(Before, "Result")) =>
     /\ ResolvedOkOf(Undefined)
     /\ tr = Idle
     /\ heap[Receiver] = Before

C22_Witness ==
  /\ AtTheCall
  /\ Before \in Nums
  /\ last.out = Resolved(ResultOk(Ref(Len(heap))))
  /\ heap[Len(heap)] = Undefined

(* A suspended transpose is resumed until it settles. *)
SuspendedTransposeSettles == (tr.pc # "idle") ~> (tr.pc = "idle")
(* The promise settled to an outcome, or was rejected with the error that *)
(* the awaited call of the collaborator raised.                           *)
SettledAsTheCollaboratorDid ==
  Settled =>
    IF Threw(Activation.held)
      THEN last.out = Rejected(Activation.held)
      ELSE last.out[1] = "resolved" /\ InstanceOf(last.out[2], "Result")

(* C23: provided every awaited call of the collaborator settles, every    *)
(* call of transpose settles: it resolves to an outcome or, when isErr,   *)
(* unwrapErr, isOk or unwrap raises, it is rejected with that very error, *)
(* which is neither caught nor turned into a failure outcome.             *)
C23_TransposeSettles ==
  /\ SuspendedTransposeSettles
  /\ []SettledAsTheCollaboratorDid

-----------------------------------------------------------------------------
(* The container is None to its callers: isNone() is true, unwrap() throws. *)
IsAbsent(id) ==
  /\ isNone(heap, id).out = Return(Bool(TRUE))
  /\ isSome(heap, id).out = Return(Bool(FALSE))
  /\ unwrap(heap, id).out = Throw(UnwrapMessage)

(* C24: no container is Some of the absence sentinel: a container that is *)
(* Some unwraps to a value other than undefined, and whenever undefined   *)
(* becomes the payload of a container (Some(undefined), from(undefined),  *)
(* replace(undefined), getOrInsert(undefined) or getOrInsertWith of a     *)
(* callback returning undefined on a None receiver, map to undefined),    *)
(* that container is None: isNone() is true and unwrap() throws.          *)
C24_SentinelCollapse ==
  /\ \A id \in Objs :
       IsTrue(isSome(heap, id)) =>
         /\ Returned(unwrap(heap, id).out)
         /\ ValueOf(unwrap(heap, id)) # Undefined
  /\ (last.op \in {"Some", "from"} /\ Arg(1) = Undefined) =>
       ReturnedRef /\ IsAbsent(OutId)
  /\ (last.op = "replace" /\ Arg(1) = Undefined) => IsAbsent(Receiver)
  /\ (last.op \in Insertions /\ Before = Undefined /\ Offered = Undefined) =>
       IsAbsent(Receiver)
  /\ (/\ last.op = "map"
      /\ Before # Undefined
      /\ Apply(Arg(1), <<Before>>) = Undefined) => ReturnedRef /\ IsAbsent(OutId)

C24_Witness ==
  /\ last.op = "Some"
  /\ Arg(1) = Undefined
  /\ IsAbsent(OutId)
  /\ \E id \in Objs :
       /\ IsTrue(isSome(heap, id))
       /\ replace(heap, id, Undefined).heap[id] = Undefined

-----------------------------------------------------------------------------
(* How often a callback was invoked, by a log of invocations. *)
Count(calls, fn) == Cardinality({i \in 1..Len(calls) : calls[i].fn = fn})
(* The containers on which two callbacks are composed: squaring twice     *)
(* stays an integer the model checker can hold.                           *)
Operands == {x \in Objs : heap[x] = Undefined \/ heap[x][2] <= MaxOperand}
(* x.andThen(f).andThen(g) *)
ThenThen(x, f, g) ==
  LET first == andThen(heap, x, f)
      second == andThen(first.heap, ValueOf(first)[3], g)
  IN  Done(second.heap, second.out, first.calls \o second.calls)
(* x.andThen(p => f(p).andThen(g)) *)
ThenNested(x, f, g) == andThen(heap, x, Then(f, g))

(* C25: for every container x (holding nothing, or a number up to         *)
(* MaxOperand) and all callbacks f and g that return a                    *)
(* container, x.andThen(f).andThen(g) and x.andThen(p => f(p).andThen(g)) *)
(* hold the same payload (both None, or both Some of the same value), and *)
(* the two forms invoke f equally often and g equally often.              *)
C25_AndThenAssociative ==
  \A x \in Operands, f \in StepFns, g \in StepFns :
    /\ Held(ThenThen(x, f, g)) = Held(ThenNested(x, f, g))
    /\ Count(ThenThen(x, f, g).calls, f) = Count(ThenNested(x, f, g).calls, f)
    /\ Count(ThenThen(x, f, g).calls, g) = Count(ThenNested(x, f, g).calls, g)

C25_Witness ==
  /\ chain.steps = <<square, square>>
  /\ chain.pos = 3
  /\ heap[chain.x] = Num(2)
  /\ heap[chain.cur] = Num(16)
  /\ Held(ThenNested(chain.x, square, square)) = Num(16)
  /\ Count(ThenNested(chain.x, square, square).calls, square) = 2
  /\ Held(ThenNested(chain.x, nope, square)) = Undefined
  /\ Count(ThenNested(chain.x, nope, square).calls, square) = 0

-----------------------------------------------------------------------------
(* C26: as the example in the documentation of replace has it, with       *)
(* a = Some(p) and b = a.replace(q) (there p = 2 and q = 5), afterwards a *)
(* equals Some(p) and b equals Some(q).                                   *)
C26_ReplaceExample ==
  (last.op = "replace" /\ Before # Undefined /\ Arg(1) # Undefined) =>
    /\ ReturnedRef
    /\ heap[Receiver] = Before
    /\ heap[OutId] = Arg(1)

-----------------------------------------------------------------------------
(* The heaps that one call of take, replace, getOrInsert or getOrInsertWith *)
(* on container id may leave, and those that two such calls may leave.     *)
AfterMutation(h, id) ==
  {take(h, id).heap}
    \cup {replace(h, id, p).heap : p \in Payloads}
    \cup {getOrInsert(h, id, p).heap : p \in Payloads}
    \cup {getOrInsertWith(h, id, fn).heap : fn \in Thunks}
AfterMutations(h, id) ==
  AfterMutation(h, id) \cup UNION {AfterMutation(h2, id) : h2 \in AfterMutation(h, id)}

(* C27: the container that take() or replace() returns is a new container, *)
(* not the receiver: calls of take, replace, getOrInsert, getOrInsertWith *)
(* on the receiver leave the payload of the returned container as it is,  *)
(* and such calls on the returned container leave the receiver's payload  *)
(* as it is.                                                              *)
C27_ReturnedIsDistinct ==
  last.op \in {"take", "replace"} =>
    /\ ReturnedRef
    /\ OutId # Receiver
    /\ OutId \notin DOMAIN last.pre
    /\ \A h \in AfterMutations(heap, Receiver) : h[OutId] = heap[OutId]
    /\ \A h \in AfterMutations(heap, OutId) : h[Receiver] = heap[Receiver]

C27_Witness ==
  /\ last.op = "replace"
  /\ Before # Undefined
  /\ Arg(1) \notin {Undefined, Before}
  /\ OutId # Receiver
  /\ take(heap, Receiver).heap[OutId] = Before
  /\ take(heap, OutId).heap[Receiver] = Arg(1)

-----------------------------------------------------------------------------
(* C28: where a combinator passes a container through, it returns that    *)
(* container and not a copy: map, andThen and filter on a None receiver,  *)
(* or and orElse on a Some receiver, and getOrInsert and getOrInsertWith  *)
(* always, return the receiver; and, or and xor return the argument b     *)
(* when they select it.  So a mutation made through the result is a       *)
(* mutation of the receiver, resp. of b: after none.map(f).getOrInsert(v) *)
(* none holds v, and after none.or(b).take() b is None.                   *)
C28_PassThroughByIdentity ==
  /\ (last.op \in {"map", "andThen", "filter"} /\ Before = Undefined) =>
       last.out = Return(Ref(Receiver)) /\ heap = last.pre
  /\ (last.op \in {"or", "orElse"} /\ Before # Undefined) =>
       last.out = Return(Ref(Receiver)) /\ heap = last.pre
  /\ last.op \in Insertions => last.out = Return(Ref(Receiver))
  /\ (last.op = "and" /\ Before # Undefined /\ OtherBefore # Undefined) =>
       last.out = Return(Arg(1)) /\ heap = last.pre
  /\ (last.op = "or" /\ Before = Undefined) =>
       last.out = Return(Arg(1)) /\ heap = last.pre
  /\ (last.op = "xor" /\ Before = Undefined /\ OtherBefore # Undefined) =>
       last.out = Return(Arg(1)) /\ heap = last.pre
  /\ \A none \in Objs :
       heap[none] = Undefined =>
         /\ \A f \in Mappers, v \in Payloads :
              LET mapped == map(heap, none, f)
              IN  getOrInsert(mapped.heap, ValueOf(mapped)[3], v).heap[none] = v
         /\ \A b \in Objs :
              LET chosen == or(heap, none, b)
              IN  take(chosen.heap, ValueOf(chosen)[3]).heap[b] = Undefined

C28_Witness ==
  /\ last.op = "map"
  /\ Before = Undefined
  /\ last.out = Return(Ref(Receiver))
  /\ getOrInsert(heap, OutId, Num(1)).heap[Receiver] = Num(1)
  /\ \E b \in Objs :
       /\ heap[b] # Undefined
       /\ or(heap, Receiver, b).out = Return(Ref(b))
       /\ take(heap, ValueOf(or(heap, Receiver, b))[3]).heap[b] = Undefined

-----------------------------------------------------------------------------
(* C29: when take, replace, getOrInsert or getOrInsertWith ran on the     *)
(* receiver while transpose was suspended at an await, and no call of the *)
(* collaborator raised, transpose still settles to what is documented for *)
(* the payload the receiver held when transpose was called (Ok(Some(v))   *)
(* for Some(Ok(v)), the failure outcome for Some(Err(e)), Ok(None)        *)
(* otherwise) and is not rejected with an error of its own.               *)
C29_TransposeUnderMutation ==
  (Settled /\ Activation.touched /\ ~Threw(Activation.held)) =>
    /\ last.out[1] = "resolved"
    /\ Documented(AtCall)

-----------------------------------------------------------------------------
(* The reference model: a container is one of two variants, <<"None">> or *)
(* <<"Some", payload>>, and no payload value has a special meaning.       *)

TaggedNone == <<"None">>
TaggedSome(payload) == <<"Some", payload>>
IsTaggedSome(t, id) == t[id][1] = "Some"
TaggedNew(t, variant) == Done(Append(t, variant), Return(Ref(Len(t) + 1)), <<>>)
TaggedSet(t, id, variant) == [t EXCEPT ![id] = variant]

(* One call on the reference model; from() without a payload makes a None. *)
Tagged(t, op, self, args) ==
  CASE op = "from" ->
         TaggedNew(t, IF args[1] = Undefined THEN TaggedNone ELSE TaggedSome(args[1]))
    [] op = "Some" -> TaggedNew(t, TaggedSome(args[1]))
    [] op = "None" -> TaggedNew(t, TaggedNone)
    [] op = "isSome" -> Done(t, Return(Bool(IsTaggedSome(t, self))), <<>>)
    [] op = "isNone" -> Done(t, Return(Bool(~IsTaggedSome(t, self))), <<>>)
    [] op = "expect" ->
         IF IsTaggedSome(t, self) THEN Done(t, Return(t[self][2]), <<>>)
                                  ELSE Done(t, Throw(args[1]), <<>>)
    [] op = "unwrap" ->
         IF IsTaggedSome(t, self) THEN Done(t, Return(t[self][2]), <<>>)
                                  ELSE Done(t, Throw(UnwrapMessage), <<>>)
    [] op = "unwrapOr" ->
         IF IsTaggedSome(t, self) THEN Done(t, Return(t[self][2]), <<>>)
                                  ELSE Done(t, Return(args[1]), <<>>)
    [] op = "unwrapOrElse" ->
         IF IsTaggedSome(t, self)
           THEN Done(t, Return(t[self][2]), <<>>)
           ELSE Done(t, Return(Apply(args[1], <<>>)), <<Call(args[1], <<>>)>>)
    [] op = "take" -> TaggedNew(TaggedSet(t, self, TaggedNone), t[self])
    [] op = "replace" -> TaggedNew(TaggedSet(t, self, TaggedSome(args[1])), t[self])
    [] op = "getOrInsert" ->
         IF IsTaggedSome(t, self)
           THEN Done(t, Return(Ref(self)), <<>>)
           ELSE Done(TaggedSet(t, self, TaggedSome(args[1])), Return(Ref(self)), <<>>)
    [] op = "getOrInsertWith" ->
         IF IsTaggedSome(t, self)
           THEN Done(t, Return(Ref(self)), <<>>)
           ELSE Done(TaggedSet(t, self, TaggedSome(Apply(args[1], <<>>))),
                     Return(Ref(self)), <<Call(args[1], <<>>)>>)

(* The reference heap that stands for a heap of slots. *)
AsTagged(h) ==
  [id \in 1..Len(h) |-> IF h[id] = Undefined THEN TaggedNone ELSE TaggedSome(h[id])]

(* The calls the two models are compared on: constructors, queries,       *)
(* unwraps and the four assigning methods, with payloads other than       *)
(* undefined.                                                             *)
Compared ==
  \/ last.op \in {"from", "None", "isSome", "isNone", "expect", "unwrap",
                  "unwrapOr", "unwrapOrElse", "take"}
  \/ last.op \in {"Some", "replace", "getOrInsert"} /\ Arg(1) # Undefined
  \/ last.op = "getOrInsertWith" /\ Apply(Arg(1), <<>>) # Undefined

(* C30: with payloads other than undefined, the container and the         *)
(* reference model with explicit Some and None variants, taken from       *)
(* corresponding states through the same call (a constructor, a query, an *)
(* unwrap, take, replace, getOrInsert, getOrInsertWith), return the same  *)
(* value or raise the same error, invoke the same callbacks, and end in   *)
(* corresponding states, in which isSome() agrees for every container.    *)
C30_RefinesTaggedUnion ==
  /\ Compared =>
       LET reference == Tagged(AsTagged(last.pre), last.op, last.self, last.args)
       IN  /\ reference.out = last.out
           /\ reference.calls = last.calls
           /\ reference.heap = AsTagged(heap)
  /\ \A id \in Objs :
       isSome(heap, id).out = Tagged(AsTagged(heap), "isSome", id, <<>>).out

C30_Witness ==
  /\ last.op = "getOrInsertWith"
  /\ Before = Undefined
  /\ Apply(Arg(1), <<>>) # Undefined
  /\ AsTagged(last.pre)[Receiver] = TaggedNone
  /\ AsTagged(heap)[Receiver] = TaggedSome(Apply(Arg(1), <<>>))
  /\ Tagged(AsTagged(heap), "expect", Receiver, <<Str("m1")>>).out = expect(heap, Receiver, Str("m1")).out
  /\ \E id \in Objs : id # Receiver /\ AsTagged(heap)[id] = TaggedNone

=============================================================================
